---- MODULE Spec2Model ----
(***************************************************************************)
(* Chunking -> storage -> retrieval pipeline of the azai RAG repository.   *)
(*                                                                         *)
(* A text is a sequence of one-character strings.  The chunk store is the  *)
(* committed content of the Chunk table, in insertion order.  One caller   *)
(* at a time runs a command (chunk, rechunk, delete, embed, query) step by *)
(* step; every step at which the code can raise has a failing variant.     *)
(* A session is SQLAlchemy's unit of work: rows added or modified in it    *)
(* reach the table at session.commit() as one transaction, and are         *)
(* discarded by session.rollback() or by leaving the session uncommitted.  *)
(***************************************************************************)
EXTENDS Integers, Sequences, FiniteSets, TLC

(***************************************************************************)
(* Bounds of the model.                                                    *)
(***************************************************************************)
MaxLen == 6          \* longest input text of SpecChunk, in characters
MaxTok == 3          \* largest token budget tried
MaxChunks == 3       \* most rows the chunk table holds
MaxIds == 5          \* most chunk ids ever drawn
MaxBatch == 2        \* largest batch_size tried
MaxK == 2            \* largest k tried
MaxDeltas == 2       \* most chunks of a streamed completion

Letters == {"a"}
Digits == {"1"}
Blank == " "
Newline == "\n"
Whitespace == {Blank, Newline}
Chars == Letters \cup Digits \cup Whitespace

None == "None"

\* a NULL embedding column
NoEmbedding == <<>>

\* the value of Chunk.embedding when the constructor is given none (the
\* column is nullable and null until computed)
embedding_default == NoEmbedding

(***************************************************************************)
(* Generic sequence helpers (Python list / str primitives).                *)
(***************************************************************************)
Min(a, b) == IF a <= b THEN a ELSE b

Slice(s, from, to) == [j \in 1..(to - from + 1) |-> s[from + j - 1]]

RECURSIVE Flatten(_)
Flatten(ss) == IF ss = <<>> THEN <<>> ELSE Head(ss) \o Flatten(Tail(ss))

RECURSIVE RunLength(_, _, _)
\* length of the maximal run of characters of class cls starting at s[i]
RunLength(s, i, cls) ==
    IF i > Len(s) \/ s[i] \notin cls THEN 0 ELSE 1 + RunLength(s, i + 1, cls)

RECURSIVE split_sep(_, _, _)
\* str.split('\n\n'): cut at every non-overlapping blank line, left to right
split_sep(s, i, cur) ==
    IF i > Len(s) THEN <<cur>>
    ELSE IF i < Len(s) /\ s[i] = Newline /\ s[i + 1] = Newline
         THEN <<cur>> \o split_sep(s, i + 2, <<>>)
         ELSE split_sep(s, i + 1, Append(cur, s[i]))

\* bool(p.strip()): the string holds a character that is not whitespace
strip_nonempty(p) == \E j \in 1..Len(p) : p[j] \notin Whitespace

RECURSIVE split_ws(_, _)
\* str.split(): the maximal runs of non-whitespace characters
split_ws(s, i) ==
    IF i > Len(s) THEN <<>>
    ELSE IF s[i] \in Whitespace THEN split_ws(s, i + 1)
         ELSE LET n == RunLength(s, i, Chars \ Whitespace)
              IN  <<Slice(s, i, i + n - 1)>> \o split_ws(s, i + n)

RECURSIVE join(_, _)
\* sep.join(parts)
join(sep, parts) ==
    IF parts = <<>> THEN <<>>
    ELSE IF Len(parts) = 1 THEN Head(parts)
         ELSE Head(parts) \o sep \o join(sep, Tail(parts))

(***************************************************************************)
(* Tokenizer: tiktoken's cl100k_base, restricted to the alphabet Chars.    *)
(* The encoder first cuts the text with its pattern                        *)
(*   [^\r\n\p{L}\p{N}]?\p{L}+ | \p{N}{1,3} | \s*[\r\n]+ | \s+(?!\S) | \s+  *)
(* (the alternatives that can match over Chars, in this order) and then    *)
(* byte-pair-encodes every piece on its own: merges never cross a piece    *)
(* boundary, so a text has at least one token per piece.  Every piece is   *)
(* counted as one token here (single digits, single letters and short      *)
(* whitespace runs are vocabulary entries).                                *)
(***************************************************************************)
RECURSIVE LastNewline(_, _, _)
\* offset (1-based, within the run of n whitespace characters starting at
\* s[i]) of the last newline of the run, 0 if it has none
LastNewline(s, i, n) ==
    IF n = 0 THEN 0
    ELSE IF s[i + n - 1] = Newline THEN n ELSE LastNewline(s, i, n - 1)

PieceLength(s, i) ==
    LET c == s[i]
        ws == RunLength(s, i, Whitespace)
        nl == LastNewline(s, i, ws)
    IN  IF c \in Letters THEN RunLength(s, i, Letters)
        ELSE IF c = Blank /\ i < Len(s) /\ s[i + 1] \in Letters
             THEN 1 + RunLength(s, i + 1, Letters)
        ELSE IF c \in Digits THEN Min(3, RunLength(s, i, Digits))
        ELSE IF nl > 0 THEN nl                       \* \s*[\r\n]+
        ELSE IF i + ws > Len(s) THEN ws              \* \s+(?!\S) at the end
        ELSE IF ws >= 2 THEN ws - 1                  \* \s+(?!\S) before a word
        ELSE ws                                      \* \s+

RECURSIVE encode(_, _)
encode(s, i) ==
    IF i > Len(s) THEN <<>>
    ELSE LET n == PieceLength(s, i)
         IN  <<Slice(s, i, i + n - 1)>> \o encode(s, i + n)

\* OpenAITokenizerWrapper.tokenize
tokenize(text) == encode(text, 1)

(***************************************************************************)
(* DocumentChunker.chunk_text                                              *)
(***************************************************************************)
Candidate(t, i) == [text |-> t, meta |-> [page_no |-> 1, index |-> i]]

\* the paragraphs kept by  [p for p in text.split('\n\n') if p.strip()]
paragraphs_of(text) == SelectSeq(split_sep(text, 1, <<>>), strip_nonempty)

\* one iteration of  for word in words  : the state is the list of chunks
\* closed so far, current_chunk and current_length
PackStepDropWord(st, word, max_tokens, i) ==
    LET word_tokens == tokenize(word)
    IN  IF st.current_length + Len(word_tokens) <= max_tokens
        THEN [st EXCEPT !.current_chunk = Append(@, word),
                        !.current_length = @ + Len(word_tokens)]
        ELSE [chunks |-> Append(st.chunks,
                                Candidate(join(<<Blank>>, st.current_chunk), i)),
              current_chunk |-> <<>>,
              current_length |-> 0]

PackStep(st, word, max_tokens, i) ==
    LET word_tokens == tokenize(word)
    IN  IF st.current_length + Len(word_tokens) <= max_tokens
        THEN [st EXCEPT !.current_chunk = Append(@, word),
                        !.current_length = @ + Len(word_tokens)]
        ELSE [chunks |-> Append(st.chunks,
                                Candidate(join(<<Blank>>, st.current_chunk), i)),
              current_chunk |-> <<word>>,
              current_length |-> Len(word_tokens)]

RECURSIVE PackWords(_, _, _, _)
PackWords(st, words, max_tokens, i) ==
    IF words = <<>> THEN st
    ELSE PackWords(PackStep(st, Head(words), max_tokens, i),
                   Tail(words), max_tokens, i)

\* the body of  for i, para in enumerate(paragraphs)
chunk_paragraph(para, i, max_tokens) ==
    IF Len(tokenize(para)) <= max_tokens
    THEN <<Candidate(para, i)>>
    ELSE LET st == PackWords([chunks |-> <<>>, current_chunk |-> <<>>,
                              current_length |-> 0],
                             split_ws(para, 1), max_tokens, i)
         IN  IF st.current_chunk # <<>>
             THEN Append(st.chunks,
                         Candidate(join(<<Blank>>, st.current_chunk), i))
             ELSE st.chunks

RECURSIVE chunk_paragraphs(_, _, _)
chunk_paragraphs(paragraphs, i, max_tokens) ==
    IF i >= Len(paragraphs) THEN <<>>
    ELSE chunk_paragraph(paragraphs[i + 1], i, max_tokens)
         \o chunk_paragraphs(paragraphs, i + 1, max_tokens)

\* DocumentChunker.__init__: the default of its max_tokens parameter
self_max_tokens == 8191

\* x or y  on integers: 0 is falsy
py_or(x, y) == IF x = 0 THEN y ELSE x

\* max_tokens = max_tokens or self.max_tokens, then the loop over paragraphs
chunk_text(text, max_tokens) ==
    chunk_paragraphs(paragraphs_of(text), 0, py_or(max_tokens, self_max_tokens))


(***************************************************************************)
(* The embedding service (client.embeddings.create): a deterministic       *)
(* function of the text, here the vector <<letters, digits>> of the text.  *)
(***************************************************************************)
CountIn(t, cls) == Cardinality({j \in 1..Len(t) : t[j] \in cls})

embeddings_create(t) == <<CountIn(t, Letters), CountIn(t, Digits)>>

\* model of Embedder.__init__ when none is given
default_model == "text-embedding-3-small"

\* the models an Embedder is made with (embed process --model ...)
Models == {default_model, "text-embedding-ada-002"}

\* client.embeddings.create(model=self.model, ...): another model gives the
\* same text another vector, here <<digits, letters>>
embeddings_create_by(model, t) ==
    IF model = default_model
    THEN embeddings_create(t)
    ELSE <<CountIn(t, Digits), CountIn(t, Letters)>>

\* Chunk.embedding.l2_distance(query_embedding), squared: the order by it is
\* the order by the distance
l2_distance(e, q) ==
    (e[1] - q[1]) * (e[1] - q[1]) + (e[2] - q[2]) * (e[2] - q[2])

(***************************************************************************)
(* Rows of the Chunk table.  meta (page list, source, chunk size) repeats  *)
(* the other columns and is left out.                                      *)
(***************************************************************************)
\* Chunk(id=uuid.uuid4(), chunk_content=text, chunk_title=source,
\*       page_number=page_number, is_embedded=False)
ChunkRowEmbedded(id, candidate, title) ==
    [id |-> id,
     chunk_content |-> candidate.text,
     chunk_title |-> title,
     page_number |-> candidate.meta.page_no,
     is_embedded |-> TRUE,
     embedding |-> embeddings_create(candidate.text)]

ChunkRow(id, candidate, title) ==
    [id |-> id,
     chunk_content |-> candidate.text,
     chunk_title |-> title,
     page_number |-> candidate.meta.page_no,
     is_embedded |-> FALSE,
     embedding |-> embedding_default]

\* select(Chunk).where(Chunk.chunk_title == source)
delete_keeps_rows(rows, title) == rows

delete_all_rows(rows, title) == <<>>

count_all_rows(rows, title) == Len(rows)

select_by_title(rows, title) ==
    SelectSeq(rows, LAMBDA c : c.chunk_title = title)

\* delete(Chunk).where(Chunk.chunk_title == source), or delete(Chunk) when no
\* source is given
delete_by_title(rows, title) ==
    IF title = None THEN <<>>
    ELSE SelectSeq(rows, LAMBDA c : c.chunk_title # title)

\* select(func.count(Chunk.id)), filtered by title when a source is given
count_by_title(rows, title) ==
    IF title = None THEN Len(rows) ELSE Len(select_by_title(rows, title))

\* select(Chunk).where(Chunk.is_embedded == False)
select_pending_all_rows(rows) == rows

select_pending(rows) == SelectSeq(rows, LAMBDA c : ~c.is_embedded)

\* chunk.embedding = embedding_data.embedding; chunk.is_embedded = True
set_embedding_flag_only(c, e) == [c EXCEPT !.is_embedded = TRUE]

set_embedding(c, e) == [c EXCEPT !.embedding = e, !.is_embedded = TRUE]

\* for chunk, embedding_data in zip(batch, response.data, strict=False)
zip_set_embeddings(batch, data) ==
    [j \in 1..Min(Len(batch), Len(data)) |-> set_embedding(batch[j], data[j])]

\* session.commit() of a batch: the UPDATE of every modified row
commit_nothing(rows, modified) == rows

commit_updates(rows, modified) ==
    [j \in 1..Len(rows) |->
        IF \E m \in 1..Len(modified) : modified[m].id = rows[j].id
        THEN modified[CHOOSE m \in 1..Len(modified) : modified[m].id = rows[j].id]
        ELSE rows[j]]

(***************************************************************************)
(* Retriever.find_relevant_chunks: WHERE is_embedded, ORDER BY distance,   *)
(* LIMIT k.  A NULL distance sorts last (ascending order); rows at equal   *)
(* distance keep their table order.                                        *)
(***************************************************************************)
where_anything(rows) == rows

where_embedded(rows) == SelectSeq(rows, LAMBDA c : c.is_embedded)

sorts_farthest_first(c, x, q) ==
    /\ c.embedding # NoEmbedding
    /\ \/ x.embedding = NoEmbedding
       \/ l2_distance(c.embedding, q) > l2_distance(x.embedding, q)

sorts_before(c, x, q) ==
    /\ c.embedding # NoEmbedding
    /\ \/ x.embedding = NoEmbedding
       \/ l2_distance(c.embedding, q) < l2_distance(x.embedding, q)

RECURSIVE insert_sorted(_, _, _)
insert_sorted(sorted, c, q) ==
    IF sorted = <<>> THEN <<c>>
    ELSE IF sorts_before(c, Head(sorted), q) THEN <<c>> \o sorted
         ELSE <<Head(sorted)>> \o insert_sorted(Tail(sorted), c, q)

RECURSIVE sort_rows(_, _)
sort_rows(rows, q) ==
    IF rows = <<>> THEN <<>>
    ELSE insert_sorted(sort_rows(SubSeq(rows, 1, Len(rows) - 1), q),
                       rows[Len(rows)], q)

order_by_nothing(rows, q) == rows

order_by_l2_distance(rows, q) == sort_rows(rows, q)

limit_or_nothing(rows, n) == IF Len(rows) < n THEN <<>> ELSE SubSeq(rows, 1, n)

limit(rows, n) == SubSeq(rows, 1, Min(n, Len(rows)))

find_relevant_chunks(rows, q, n) ==
    limit(order_by_l2_distance(where_embedded(rows), q), n)

(***************************************************************************)
(* State.                                                                  *)
(***************************************************************************)
VARIABLES
    db,               \* the committed rows of the Chunk table, in table order
    next_id,          \* the next fresh chunk id (uuid.uuid4())
    op,               \* the command that runs: idle, chunk, rechunk, delete,
                      \* embed, query
    pc,               \* position of the running command
    text,             \* the text given to chunk_text
    max_tokens,       \* the token budget in force
    source,           \* the source title the command names
    chunks,           \* the candidates chunk_text returned
    i,                \* loop index: candidates added, or first row of the batch
    session_new,      \* rows added to the session and not yet committed
    selected,         \* the rows a command's select returned
    batch_size,       \* batch_size of process_pending_embeddings
    session_dirty,    \* rows the session modified and has not yet committed
    total_processed,  \* total_processed of process_pending_embeddings
    count,            \* count of delete_chunks
    query,            \* the query text
    k,                \* k of find_relevant_chunks
    query_embedding,  \* the vector of the query
    result,           \* the count the command returned
    relevant,         \* the rows find_relevant_chunks returned
    message,          \* what the command printed when it did nothing
    error,            \* what the command raised
    prev_run_ok,      \* history: the last process_pending_embeddings returned
                      \* without error and no chunk was inserted since
    second_run,       \* history: the running process_pending_embeddings
                      \* started with prev_run_ok
    peer_pc,          \* position of a second, concurrent
                      \* process_pending_embeddings invocation
    peer_selected,    \* the rows its select returned
    peer_i,           \* its loop index
    peer_batch_size,  \* its batch_size
    peer_dirty,       \* rows its session modified and has not yet committed
    peer_model,       \* the embedding model of its Embedder
    response,         \* what generate_answer returned to the chat endpoint
    sources,          \* the rows the chat endpoint retrieved for its sources
    status,           \* the HTTP status of the chat response, 0 before it
    stream,           \* what is left to iterate of the value
                      \* generate_streaming_answer returned
    stream_kind,      \* that value's type: str or Stream
    events,           \* the events generate_stream has yielded
    failure           \* history: the step of retrieve-and-generate that
                      \* raised

chunker_vars == <<text, max_tokens, chunks>>
session_vars == <<i, session_new, selected, session_dirty>>
embed_vars == <<batch_size, total_processed>>
query_vars == <<query, k, query_embedding, relevant>>
history_vars == <<prev_run_ok, second_run>>
peer_vars ==
    <<peer_pc, peer_selected, peer_i, peer_batch_size, peer_dirty, peer_model>>
chat_vars == <<response, sources, status, stream, stream_kind, events, failure>>

vars == <<db, next_id, op, pc, source, count, result, message, error,
          chunker_vars,
          session_vars, embed_vars, query_vars, history_vars, peer_vars,
          chat_vars>>

Titles == {"A", "B"}

\* texts given to the chunk command
Docs == {<<>>, <<"1">>, <<"a", " ", "1">>}

\* texts given to the query command
Queries == {<<>>, <<"a">>, <<"1">>}

\* the locals of a command before it starts
IdleLocals ==
    /\ op = "idle"
    /\ pc = "idle"
    /\ text = <<>>
    /\ max_tokens = 0
    /\ source = None
    /\ chunks = <<>>
    /\ i = 0
    /\ session_new = <<>>
    /\ selected = <<>>
    /\ batch_size = 0
    /\ session_dirty = <<>>
    /\ total_processed = 0
    /\ count = 0
    /\ query = <<>>
    /\ k = 0
    /\ query_embedding = NoEmbedding
    /\ result = 0
    /\ relevant = <<>>
    /\ message = None
    /\ error = None
    /\ second_run = FALSE
    /\ response = <<>>
    /\ sources = <<>>
    /\ status = 0
    /\ stream = <<>>
    /\ stream_kind = None
    /\ events = <<>>
    /\ failure = None

\* no second process_pending_embeddings invocation runs
PeerIdle ==
    /\ peer_pc = "idle"
    /\ peer_selected = <<>>
    /\ peer_i = 0
    /\ peer_batch_size = 0
    /\ peer_dirty = <<>>
    /\ peer_model = None

(***************************************************************************)
(* SpecChunk: chunk_text as a function of every text up to MaxLen          *)
(* characters and every budget 1..MaxTok.                                  *)
(***************************************************************************)
RECURSIVE TextsUpTo(_)
TextsUpTo(n) ==
    IF n = 0 THEN {<<>>}
    ELSE LET shorter == TextsUpTo(n - 1)
         IN  shorter \cup {Append(t, c) : t \in {u \in shorter : Len(u) = n - 1},
                                          c \in Chars}

\* an empty store and no command running against it
StoreUnused ==
    /\ db = <<>>
    /\ next_id = 1
    /\ chunks = <<>>
    /\ i = 0
    /\ session_new = <<>>
    /\ selected = <<>>
    /\ batch_size = 0
    /\ session_dirty = <<>>
    /\ total_processed = 0
    /\ count = 0
    /\ query = <<>>
    /\ k = 0
    /\ query_embedding = NoEmbedding
    /\ result = 0
    /\ relevant = <<>>
    /\ message = None
    /\ error = None
    /\ prev_run_ok = FALSE
    /\ second_run = FALSE
    /\ response = <<>>
    /\ sources = <<>>
    /\ status = 0
    /\ stream = <<>>
    /\ stream_kind = None
    /\ events = <<>>
    /\ failure = None
    /\ PeerIdle

\* a caller of chunk_text that has not called yet
CallLocals ==
    /\ op = "chunk_text"
    /\ pc = "call"
    /\ source = None
    /\ StoreUnused

InitChunk ==
    /\ CallLocals
    /\ text \in TextsUpTo(MaxLen)
    /\ max_tokens \in 1..MaxTok

\* chunk_text called with a budget of zero or less
InitBudget ==
    /\ CallLocals
    /\ text \in TextsUpTo(MaxLen)
    /\ max_tokens \in (0 - MaxTok)..0

ChunkTextCall ==
    /\ op = "chunk_text"
    /\ pc = "call"
    /\ chunks' = chunk_text(text, max_tokens)
    /\ pc' = "returned"
    /\ UNCHANGED <<peer_vars, chat_vars,
                   db, next_id, op, source, count, result, message, error,
                   text, max_tokens, session_vars, embed_vars, query_vars,
                   history_vars>>

NextChunk == ChunkTextCall

SpecChunk == InitChunk /\ [][NextChunk]_vars

SpecBudget == InitBudget /\ [][NextChunk]_vars

(***************************************************************************)
(* Spec: the commands against the chunk store.                             *)
(***************************************************************************)
Init ==
    /\ db = <<>>
    /\ next_id = 1
    /\ prev_run_ok = FALSE
    /\ IdleLocals
    /\ PeerIdle

\* ---- cli chunk text / chunk file ---------------------------------------
\* the command is given a text, a source name and a token budget
ChunkCommand ==
    /\ op = "idle"
    /\ \E t \in Docs, s \in Titles, m \in 1..MaxTok :
          /\ Len(db) + Len(chunk_text(t, m)) <= MaxChunks
          /\ next_id + Len(chunk_text(t, m)) <= MaxIds + 1
          /\ text' = t
          /\ source' = s
          /\ max_tokens' = m
    /\ op' = "chunk"
    /\ pc' = "chunking"
    /\ UNCHANGED <<peer_vars, chat_vars,
                   message, db, next_id, count, result, error, chunks, session_vars,
                   embed_vars, query_vars, history_vars>>

\* chunker = DocumentChunker(...); chunks = chunker.chunk_text(text), then
\* store_chunks opens its session
RunChunker ==
    /\ op \in {"chunk", "rechunk"}
    /\ pc = "chunking"
    /\ chunks' = chunk_text(text, max_tokens)
    /\ pc' = "store_add"
    /\ i' = 0
    /\ session_new' = <<>>
    /\ UNCHANGED <<peer_vars, chat_vars,
                   message, db, next_id, op, source, count, result, error, text,
                   max_tokens, selected, session_dirty, embed_vars, query_vars,
                   history_vars>>

\* building the chunker or tokenizing raises
RunChunkerFail ==
    /\ op \in {"chunk", "rechunk"}
    /\ pc = "chunking"
    /\ pc' = "error"
    /\ error' = "chunker"
    /\ UNCHANGED <<peer_vars, chat_vars,
                   message, db, next_id, op, source, count, result, chunker_vars,
                   session_vars, embed_vars, query_vars, history_vars>>

\* store_chunks, one iteration of  for i, chunk in enumerate(chunks) :
\* session.add(db_chunk)
StoreAddCommitEach ==
    /\ op \in {"chunk", "rechunk"}
    /\ pc = "store_add"
    /\ i < Len(chunks)
    /\ db' = Append(db, ChunkRow(next_id, chunks[i + 1], source))
    /\ next_id' = next_id + 1
    /\ i' = i + 1
    /\ UNCHANGED <<peer_vars, chat_vars,
                   message, op, pc, source, count, result, error, chunker_vars,
                   session_new, selected, session_dirty, embed_vars,
                   query_vars, history_vars>>

StoreAdd ==
    /\ op \in {"chunk", "rechunk"}
    /\ pc = "store_add"
    /\ i < Len(chunks)
    /\ session_new' = Append(session_new, ChunkRow(next_id, chunks[i + 1], source))
    /\ next_id' = next_id + 1
    /\ i' = i + 1
    /\ UNCHANGED <<peer_vars, chat_vars,
                   message, db, op, pc, source, count, result, error, chunker_vars,
                   selected, session_dirty, embed_vars, query_vars,
                   history_vars>>

\* an iteration raises: the session is left without a commit
StoreAddFail ==
    /\ op \in {"chunk", "rechunk"}
    /\ pc = "store_add"
    /\ i < Len(chunks)
    /\ session_new' = <<>>
    /\ pc' = "error"
    /\ error' = "store_chunks"
    /\ UNCHANGED <<peer_vars, chat_vars,
                   message, db, next_id, op, source, count, result, chunker_vars, i,
                   selected, session_dirty, embed_vars, query_vars,
                   history_vars>>

\* session.commit(); return len(chunks)
StoreCommitOverwrite ==
    /\ op \in {"chunk", "rechunk"}
    /\ pc = "store_add"
    /\ i = Len(chunks)
    /\ db' = session_new
    /\ session_new' = <<>>
    /\ result' = Len(chunks)
    /\ pc' = "done"
    /\ prev_run_ok' = (prev_run_ok /\ session_new = <<>>)
    /\ UNCHANGED <<peer_vars, chat_vars,
                   message, next_id, op, source, count, error, chunker_vars, i,
                   selected, session_dirty, embed_vars, query_vars, second_run>>

StoreCommit ==
    /\ op \in {"chunk", "rechunk"}
    /\ pc = "store_add"
    /\ i = Len(chunks)
    /\ db' = db \o session_new
    /\ session_new' = <<>>
    /\ result' = Len(chunks)
    /\ pc' = "done"
    /\ prev_run_ok' = (prev_run_ok /\ session_new = <<>>)
    /\ UNCHANGED <<peer_vars, chat_vars,
                   message, next_id, op, source, count, error, chunker_vars, i,
                   selected, session_dirty, embed_vars, query_vars, second_run>>

\* session.commit() raises: the transaction is rolled back
StoreCommitFail ==
    /\ op \in {"chunk", "rechunk"}
    /\ pc = "store_add"
    /\ i = Len(chunks)
    /\ session_new' = <<>>
    /\ pc' = "error"
    /\ error' = "commit"
    /\ UNCHANGED <<peer_vars, chat_vars,
                   message, db, next_id, op, source, count, result, chunker_vars, i,
                   selected, session_dirty, embed_vars, query_vars,
                   history_vars>>

\* ---- cli chunk rechunk -------------------------------------------------
\* chunks = select(Chunk).where(chunk_title == source); nothing found:
\* message and return; else collect chunks_content and issue the delete
RechunkSelect ==
    /\ op = "idle"
    /\ \E s \in Titles, m \in 1..MaxTok :
          LET found == select_by_title(db, s)
              full_content ==
                  join(<<Newline, Newline>>,
                       [j \in 1..Len(found) |-> found[j].chunk_content])
          IN  /\ next_id + Len(chunk_text(full_content, m)) <= MaxIds + 1
              /\ source' = s
              /\ max_tokens' = m
              /\ selected' = found
              /\ pc' = IF found = <<>> THEN "done" ELSE "delete"
              /\ message' = IF found = <<>> THEN "No chunks found" ELSE None
    /\ op' = "rechunk"
    /\ UNCHANGED <<peer_vars, chat_vars,
                   db, next_id, count, result, error, text, chunks, i,
                   session_new, session_dirty, embed_vars, query_vars,
                   history_vars>>

\* delete(Chunk).where(chunk_title == source); session.commit(); then
\* full_content = "\n\n".join(chunks_content)
RechunkDelete ==
    /\ op = "rechunk"
    /\ pc = "delete"
    /\ db' = delete_by_title(db, source)
    /\ text' = join(<<Newline, Newline>>,
                    [j \in 1..Len(selected) |-> selected[j].chunk_content])
    /\ pc' = "chunking"
    /\ UNCHANGED <<peer_vars, chat_vars,
                   message, next_id, op, source, count, result, error, max_tokens,
                   chunks, session_vars, embed_vars, query_vars, history_vars>>

\* the delete or its commit raises
RechunkDeleteFail ==
    /\ op = "rechunk"
    /\ pc = "delete"
    /\ pc' = "error"
    /\ error' = "commit"
    /\ UNCHANGED <<peer_vars, chat_vars,
                   message, db, next_id, op, source, count, result, chunker_vars,
                   session_vars, embed_vars, query_vars, history_vars>>

\* ---- cli chunk delete --------------------------------------------------
\* count = select(func.count(Chunk.id)) [where chunk_title == source]
DeleteCount ==
    /\ op = "idle"
    /\ \E s \in Titles \cup {None} :
          /\ source' = s
          /\ count' = count_by_title(db, s)
          /\ pc' = IF count_by_title(db, s) = 0 THEN "done" ELSE "confirm"
          /\ message' = IF count_by_title(db, s) = 0
                        THEN "No chunks found" ELSE None
    /\ op' = "delete"
    /\ UNCHANGED <<peer_vars, chat_vars,
                   db, next_id, result, error, chunker_vars, session_vars,
                   embed_vars, query_vars, history_vars>>

\* typer.confirm answered no
DeleteCancel ==
    /\ op = "delete"
    /\ pc = "confirm"
    /\ pc' = "done"
    /\ message' = "Operation cancelled."
    /\ UNCHANGED <<peer_vars, chat_vars,
                   db, next_id, op, source, count, result, error,
                   chunker_vars, session_vars, embed_vars, query_vars,
                   history_vars>>

\* session.exec(delete(Chunk)...); session.commit(); reports count
DeleteExec ==
    /\ op = "delete"
    /\ pc = "confirm"
    /\ db' = delete_by_title(db, source)
    /\ result' = count
    /\ pc' = "done"
    /\ UNCHANGED <<peer_vars, chat_vars,
                   message, next_id, op, source, count, error, chunker_vars,
                   session_vars, embed_vars, query_vars, history_vars>>

DeleteExecFail ==
    /\ op = "delete"
    /\ pc = "confirm"
    /\ pc' = "error"
    /\ error' = "commit"
    /\ UNCHANGED <<peer_vars, chat_vars,
                   message, db, next_id, op, source, count, result, chunker_vars,
                   session_vars, embed_vars, query_vars, history_vars>>

\* ---- Embedder.process_pending_embeddings -------------------------------
\* chunks = select(Chunk).where(is_embedded == False); none: return 0
EmbedSelect ==
    /\ op = "idle"
    /\ \E b \in 1..MaxBatch : batch_size' = b
    /\ op' = "embed"
    /\ selected' = select_pending(db)
    /\ total_processed' = 0
    /\ i' = 0
    /\ second_run' = prev_run_ok
    /\ IF select_pending(db) = <<>>
       THEN /\ pc' = "done"
            /\ result' = 0
            /\ prev_run_ok' = TRUE
       ELSE /\ pc' = "batch"
            /\ UNCHANGED <<result, prev_run_ok>>
    /\ UNCHANGED <<peer_vars, chat_vars,
                   db, next_id, source, count, message, error, chunker_vars,
                   session_new, session_dirty, query_vars>>

\* every batch is cut from the start of the snapshot
batch_from_start(rows, first, size) ==
    SubSeq(rows, 1, Min(size, Len(rows)))

\* batch = chunks[i:i + batch_size]
batch_of(rows, first, size) ==
    SubSeq(rows, first + 1, Min(first + size, Len(rows)))

\* the embedding request of a batch succeeds with one vector per text, and
\* every chunk of the batch is given its vector
EmbedBatch ==
    /\ op = "embed"
    /\ pc = "batch"
    /\ LET batch == batch_of(selected, i, batch_size)
           data == [j \in 1..Len(batch) |-> embeddings_create(batch[j].chunk_content)]
       IN  session_dirty' = zip_set_embeddings(batch, data)
    /\ pc' = "commit"
    /\ UNCHANGED <<peer_vars, chat_vars,
                   message, db, next_id, op, source, count, result, error,
                   chunker_vars, i, session_new, selected, embed_vars,
                   query_vars, history_vars>>

\* the embedding request raises: session.rollback(); raise
EmbedBatchFail ==
    /\ op = "embed"
    /\ pc = "batch"
    /\ session_dirty' = <<>>
    /\ pc' = "error"
    /\ error' = "Error processing batch: embedding"
    /\ prev_run_ok' = FALSE
    /\ UNCHANGED <<peer_vars, chat_vars,
                   message, db, next_id, op, source, count, result, chunker_vars, i,
                   session_new, selected, embed_vars, query_vars, second_run>>

\* session.commit(); total_processed += len(batch); next batch or return
EmbedCommit ==
    /\ op = "embed"
    /\ pc = "commit"
    /\ db' = commit_updates(db, session_dirty)
    /\ session_dirty' = <<>>
    /\ total_processed' =
           total_processed + Len(batch_of(selected, i, batch_size))
    /\ i' = i + batch_size
    /\ IF i + batch_size >= Len(selected)
       THEN /\ pc' = "done"
            /\ result' = total_processed
                         + Len(batch_of(selected, i, batch_size))
            /\ prev_run_ok' = TRUE
       ELSE /\ pc' = "batch"
            /\ UNCHANGED <<result, prev_run_ok>>
    /\ UNCHANGED <<peer_vars, chat_vars,
                   next_id, op, source, count, message, error, chunker_vars,
                   session_new, selected, batch_size, query_vars, second_run>>

\* session.commit() raises: session.rollback(); raise
EmbedCommitFail ==
    /\ op = "embed"
    /\ pc = "commit"
    /\ session_dirty' = <<>>
    /\ pc' = "error"
    /\ error' = "Error processing batch: commit"
    /\ prev_run_ok' = FALSE
    /\ UNCHANGED <<peer_vars, chat_vars,
                   message, db, next_id, op, source, count, result, chunker_vars, i,
                   session_new, selected, embed_vars, query_vars, second_run>>

\* ---- Retriever.find_relevant_chunks ------------------------------------
\* query_embedding = self.create_query_embedding(query)
QueryEmbed ==
    /\ op = "idle"
    /\ \E q \in Queries, n \in 0..MaxK :
          /\ query' = q
          /\ k' = n
          /\ query_embedding' = embeddings_create(q)
    /\ op' = "query"
    /\ pc' = "select"
    /\ UNCHANGED <<peer_vars, chat_vars,
                   relevant, message, db, next_id, source, count, result, error, chunker_vars,
                   session_vars, embed_vars, history_vars>>

\* the embedding request of the query raises
QueryEmbedFail ==
    /\ op = "idle"
    /\ \E q \in Queries, n \in 0..MaxK :
          /\ query' = q
          /\ k' = n
    /\ op' = "query"
    /\ pc' = "error"
    /\ error' = "embedding"
    /\ UNCHANGED <<peer_vars, chat_vars,
                   message, db, next_id, source, count, result, chunker_vars,
                   session_vars, embed_vars, query_embedding, relevant,
                   history_vars>>

\* the select ... where ... order_by ... limit(k) and its return; find_similar
\* prints a message when the result is empty
QuerySelect ==
    /\ op = "query"
    /\ pc = "select"
    /\ relevant' = find_relevant_chunks(db, query_embedding, k)
    /\ message' = IF find_relevant_chunks(db, query_embedding, k) = <<>>
                  THEN "No relevant chunks found" ELSE None
    /\ pc' = "done"
    /\ UNCHANGED <<peer_vars, chat_vars,
                   db, next_id, op, source, count, result, error,
                   chunker_vars, session_vars, embed_vars, query, k,
                   query_embedding, history_vars>>

\* ---- the command has returned or raised; the next one may start --------
Return ==
    /\ pc \in {"done", "error"}
    /\ op' = "idle"
    /\ pc' = "idle"
    /\ text' = <<>>
    /\ max_tokens' = 0
    /\ source' = None
    /\ chunks' = <<>>
    /\ i' = 0
    /\ session_new' = <<>>
    /\ selected' = <<>>
    /\ batch_size' = 0
    /\ session_dirty' = <<>>
    /\ total_processed' = 0
    /\ count' = 0
    /\ query' = <<>>
    /\ k' = 0
    /\ query_embedding' = NoEmbedding
    /\ result' = 0
    /\ relevant' = <<>>
    /\ message' = None
    /\ error' = None
    /\ second_run' = FALSE
    /\ response' = <<>>
    /\ sources' = <<>>
    /\ status' = 0
    /\ stream' = <<>>
    /\ stream_kind' = None
    /\ events' = <<>>
    /\ failure' = None
    /\ UNCHANGED <<db, next_id, prev_run_ok, peer_vars>>

Next ==
    \/ ChunkCommand
    \/ RunChunker
    \/ RunChunkerFail
    \/ StoreAdd
    \/ StoreAddFail
    \/ StoreCommit
    \/ StoreCommitFail
    \/ RechunkSelect
    \/ RechunkDelete
    \/ RechunkDeleteFail
    \/ DeleteCount
    \/ DeleteCancel
    \/ DeleteExec
    \/ DeleteExecFail
    \/ EmbedSelect
    \/ EmbedBatch
    \/ EmbedBatchFail
    \/ EmbedCommit
    \/ EmbedCommitFail
    \/ QueryEmbed
    \/ QueryEmbedFail
    \/ QuerySelect
    \/ Return

Spec == Init /\ [][Next]_vars

(***************************************************************************)
(* SpecConc: a second process_pending_embeddings invocation, with its own  *)
(* session, runs concurrently with the commands that insert and embed.     *)
(* The failures of the chunk command are left out: they leave the store    *)
(* as it was.                                                              *)
(***************************************************************************)
\* chunks = select(Chunk).where(is_embedded == False); none: return 0
PeerEmbedSelect ==
    /\ peer_pc = "idle"
    /\ \E b \in 1..MaxBatch : peer_batch_size' = b
    /\ \E m \in Models : peer_model' = m
    /\ peer_selected' = select_pending(db)
    /\ peer_i' = 0
    /\ peer_pc' = IF select_pending(db) = <<>> THEN "done" ELSE "batch"
    /\ UNCHANGED <<db, next_id, op, pc, source, count, result, message, error,
                   chunker_vars, session_vars, embed_vars, query_vars,
                   history_vars, peer_dirty, chat_vars>>

\* the embedding request of the batch succeeds; every chunk of the batch, as
\* the session loaded it, is given its vector
PeerEmbedBatch ==
    /\ peer_pc = "batch"
    /\ LET batch == batch_of(peer_selected, peer_i, peer_batch_size)
           data == [j \in 1..Len(batch) |->
                       embeddings_create_by(peer_model, batch[j].chunk_content)]
       IN  peer_dirty' = zip_set_embeddings(batch, data)
    /\ peer_pc' = "commit"
    /\ UNCHANGED <<db, next_id, op, pc, source, count, result, message, error,
                   chunker_vars, session_vars, embed_vars, query_vars,
                   history_vars, peer_selected, peer_i, peer_batch_size,
                   peer_model, chat_vars>>

\* the embedding request raises: session.rollback(); raise
PeerEmbedBatchFail ==
    /\ peer_pc = "batch"
    /\ peer_dirty' = <<>>
    /\ peer_pc' = "error"
    /\ UNCHANGED <<db, next_id, op, pc, source, count, result, message, error,
                   chunker_vars, session_vars, embed_vars, query_vars,
                   history_vars, peer_selected, peer_i, peer_batch_size,
                   peer_model, chat_vars>>

\* session.commit(): the UPDATE of every row the session modified
PeerEmbedCommit ==
    /\ peer_pc = "commit"
    /\ db' = commit_updates(db, peer_dirty)
    /\ peer_dirty' = <<>>
    /\ peer_i' = peer_i + peer_batch_size
    /\ peer_pc' = IF peer_i + peer_batch_size >= Len(peer_selected)
                  THEN "done" ELSE "batch"
    /\ UNCHANGED <<next_id, op, pc, source, count, result, message, error,
                   chunker_vars, session_vars, embed_vars, query_vars,
                   history_vars, peer_selected, peer_batch_size, peer_model,
                   chat_vars>>

\* session.commit() raises: session.rollback(); raise
PeerEmbedCommitFail ==
    /\ peer_pc = "commit"
    /\ peer_dirty' = <<>>
    /\ peer_pc' = "error"
    /\ UNCHANGED <<db, next_id, op, pc, source, count, result, message, error,
                   chunker_vars, session_vars, embed_vars, query_vars,
                   history_vars, peer_selected, peer_i, peer_batch_size,
                   peer_model, chat_vars>>

\* the invocation has returned or raised
PeerReturn ==
    /\ peer_pc \in {"done", "error"}
    /\ peer_pc' = "idle"
    /\ peer_selected' = <<>>
    /\ peer_i' = 0
    /\ peer_batch_size' = 0
    /\ peer_dirty' = <<>>
    /\ peer_model' = None
    /\ UNCHANGED <<db, next_id, op, pc, source, count, result, message, error,
                   chunker_vars, session_vars, embed_vars, query_vars,
                   history_vars, chat_vars>>

NextConc ==
    \/ ChunkCommand
    \/ RunChunker
    \/ StoreAdd
    \/ StoreCommit
    \/ EmbedSelect
    \/ EmbedBatch
    \/ EmbedBatchFail
    \/ EmbedCommit
    \/ EmbedCommitFail
    \/ Return
    \/ PeerEmbedSelect
    \/ PeerEmbedBatch
    \/ PeerEmbedBatchFail
    \/ PeerEmbedCommit
    \/ PeerEmbedCommitFail
    \/ PeerReturn

SpecConc == Init /\ [][NextConc]_vars

(***************************************************************************)
(* SpecSnapshot: one process_pending_embeddings invocation, with its own   *)
(* session and the default model, runs while the chunk command inserts     *)
(* chunks.                                                                 *)
(***************************************************************************)
\* the invocation of an Embedder made with the default model
PeerEmbedSelectDefault ==
    /\ PeerEmbedSelect
    /\ peer_model' = default_model

NextSnapshot ==
    \/ ChunkCommand
    \/ RunChunker
    \/ StoreAdd
    \/ StoreCommit
    \/ Return
    \/ PeerEmbedSelectDefault
    \/ PeerEmbedBatch
    \/ PeerEmbedBatchFail
    \/ PeerEmbedCommit
    \/ PeerEmbedCommitFail
    \/ PeerReturn

SpecSnapshot == Init /\ [][NextSnapshot]_vars

(***************************************************************************)
(* SpecRace: the chunk, rechunk and delete commands of one caller while    *)
(* other callers persist and delete chunks.  What another caller does to   *)
(* the store is the commit of its transaction, one step.                   *)
(***************************************************************************)
\* another caller's store_chunks, after chunk_text with the chunker's own
\* max_tokens: its commit inserts one row per candidate
OtherStoreChunks ==
    /\ \E t \in Docs, s \in Titles :
          LET candidates == chunk_text(t, self_max_tokens)
          IN  /\ candidates # <<>>
              /\ Len(db) + Len(candidates) <= MaxChunks
              /\ next_id + Len(candidates) <= MaxIds + 1
              /\ db' = db \o [j \in 1..Len(candidates) |->
                                  ChunkRow(next_id + j - 1, candidates[j], s)]
              /\ next_id' = next_id + Len(candidates)
    /\ UNCHANGED <<op, pc, source, count, result, message, error,
                   chunker_vars, session_vars, embed_vars, query_vars,
                   history_vars, peer_vars, chat_vars>>

\* another caller's delete: its commit removes the rows of a title, or all
OtherDeleteChunks ==
    /\ \E s \in Titles \cup {None} :
          /\ delete_by_title(db, s) # db
          /\ db' = delete_by_title(db, s)
    /\ UNCHANGED <<next_id, op, pc, source, count, result, message, error,
                   chunker_vars, session_vars, embed_vars, query_vars,
                   history_vars, peer_vars, chat_vars>>

NextRace ==
    \/ ChunkCommand
    \/ RunChunker
    \/ StoreAdd
    \/ StoreCommit
    \/ RechunkSelect
    \/ RechunkDelete
    \/ DeleteCount
    \/ DeleteCancel
    \/ DeleteExec
    \/ Return
    \/ OtherStoreChunks
    \/ OtherDeleteChunks

SpecRace == Init /\ [][NextRace]_vars

(***************************************************************************)
(* SpecShort: the commands of Spec, with an embedding service that may     *)
(* answer a batch with fewer vectors than texts, and with batch sizes      *)
(* below 1.                                                                *)
(***************************************************************************)
\* response.data holds only the first n vectors, n < len(batch): zip stops
\* at the shorter sequence and the chunks after it are left as they were
EmbedBatchShort ==
    /\ op = "embed"
    /\ pc = "batch"
    /\ LET batch == batch_of(selected, i, batch_size)
       IN  \E n \in 0..(Len(batch) - 1) :
               LET data == [j \in 1..n |-> embeddings_create(batch[j].chunk_content)]
               IN  session_dirty' = zip_set_embeddings(batch, data)
    /\ pc' = "commit"
    /\ UNCHANGED <<peer_vars, chat_vars, message, db, next_id, op, source,
                   count, result, error, chunker_vars, i, session_new,
                   selected, embed_vars, query_vars, history_vars>>

\* batch_size <= -1: chunks is read, range(0, total_chunks, batch_size) is
\* empty, the loop body never runs and total_processed = 0 is returned
EmbedNoBatches ==
    /\ op = "idle"
    /\ \E b \in (0 - MaxBatch)..(0 - 1) : batch_size' = b
    /\ op' = "embed"
    /\ selected' = select_pending(db)
    /\ total_processed' = 0
    /\ i' = 0
    /\ second_run' = prev_run_ok
    /\ pc' = "done"
    /\ result' = 0
    /\ prev_run_ok' = TRUE
    /\ UNCHANGED <<peer_vars, chat_vars,
                   db, next_id, source, count, message, error, chunker_vars,
                   session_new, session_dirty, query_vars>>

NextShort ==
    \/ Next
    \/ EmbedBatchShort
    \/ EmbedNoBatches

SpecShort == Init /\ [][NextShort]_vars

(***************************************************************************)
(* SpecApi: the commands of Spec and the two chat endpoints of web/main.py *)
(* (chat, chat_stream) on top of Generator.generate_answer and             *)
(* Generator.generate_streaming_answer.  A str is the sequence of its      *)
(* characters; the texts of the two fixed messages are cut to their first  *)
(* characters.                                                             *)
(***************************************************************************)
\* k=3 of both endpoints
chat_k == 3

\* "Es wurden keine relevanten Informationen in den Dokumenten gefunden."
no_information_msg == <<"E", "s">>

\* f"Fehler bei der Antwortgenerierung: {e!s}"
error_msg == <<"F", "e", "h", "l", "e", "r">>

\* response.choices[0].message.content of a completion
Answers == {<<"o", "k">>}

\* the chunks of a streamed completion: with content, with an empty
\* content, without choices
ContentChunk == [choices |-> <<[delta |-> [content |-> <<"x">>]]>>]
NoContentChunk == [choices |-> <<[delta |-> [content |-> <<>>]]>>]
NoChoicesChunk == [choices |-> <<>>]

StreamChunks == {ContentChunk, NoContentChunk, NoChoicesChunk}

RECURSIVE StreamsUpTo(_)
StreamsUpTo(n) ==
    IF n = 0 THEN {<<>>}
    ELSE LET shorter == StreamsUpTo(n - 1)
         IN  shorter \cup {Append(t, c) : t \in {u \in shorter : Len(u) = n - 1},
                                          c \in StreamChunks}

\* iter(str): the characters of the string, none of which has choices
iter_str(str) == [j \in 1..Len(str) |-> [char |-> str[j]]]

\* f"data: {payload}\n\n"
sse(payload) == <<"data: ">> \o payload \o <<"\n", "\n">>

DONE == <<"[DONE]">>

\* f"Error: {e!s}"
error_event == <<"Error: ">>

\* the events the body of  for chunk in stream  yields for one chunk
events_of(chunk) ==
    IF "choices" \in DOMAIN chunk /\ Len(chunk.choices) > 0
    THEN LET delta == chunk.choices[1].delta
         IN  IF "content" \in DOMAIN delta /\ delta.content # <<>>
             THEN <<sse(delta.content)>>
             ELSE <<>>
    ELSE <<>>

Generating == op \in {"chat", "chat_stream"}

\* the endpoint calls generate_answer / generate_streaming_answer, which
\* starts with retriever.find_relevant_chunks(query, k): the embedding
\* request of the query
GenerateEmbed ==
    /\ op = "idle"
    /\ \E o \in {"chat", "chat_stream"}, q \in Queries :
          /\ op' = o
          /\ query' = q
          /\ query_embedding' = embeddings_create(q)
    /\ k' = chat_k
    /\ pc' = "select"
    /\ UNCHANGED <<db, next_id, source, count, result, message, error,
                   chunker_vars, session_vars, embed_vars, relevant,
                   history_vars, peer_vars, chat_vars>>

\* the embedding request raises: except Exception: return error_msg
GenerateEmbedFail ==
    /\ op = "idle"
    /\ \E o \in {"chat", "chat_stream"}, q \in Queries :
          /\ op' = o
          /\ query' = q
    /\ k' = chat_k
    /\ response' = error_msg
    /\ failure' = "embedding call"
    /\ pc' = "returned"
    /\ UNCHANGED <<db, next_id, source, count, result, message, error,
                   chunker_vars, session_vars, embed_vars, query_embedding,
                   relevant, history_vars, peer_vars, sources, status,
                   stream, stream_kind, events>>

\* the select of find_relevant_chunks; if not relevant_chunks: return the
\* fixed message
GenerateSelect ==
    /\ Generating
    /\ pc = "select"
    /\ relevant' = find_relevant_chunks(db, query_embedding, k)
    /\ IF find_relevant_chunks(db, query_embedding, k) = <<>>
       THEN /\ response' = no_information_msg
            /\ pc' = "returned"
       ELSE /\ pc' = "complete"
            /\ UNCHANGED response
    /\ UNCHANGED <<db, next_id, op, source, count, result, message, error,
                   chunker_vars, session_vars, embed_vars, query, k,
                   query_embedding, history_vars, peer_vars, sources, status,
                   stream, stream_kind, events, failure>>

\* the select raises: except Exception: return error_msg
GenerateSelectFail ==
    /\ Generating
    /\ pc = "select"
    /\ response' = error_msg
    /\ failure' = "store read"
    /\ pc' = "returned"
    /\ UNCHANGED <<db, next_id, op, source, count, result, message, error,
                   chunker_vars, session_vars, embed_vars, query_vars,
                   history_vars, peer_vars, sources, status, stream,
                   stream_kind, events>>

\* client.chat.completions.create(...): generate_answer returns the content
\* of the completion, generate_streaming_answer the Stream
GenerateComplete ==
    /\ Generating
    /\ pc = "complete"
    /\ IF op = "chat"
       THEN /\ \E a \in Answers : response' = a
            /\ UNCHANGED <<stream, stream_kind>>
       ELSE /\ \E t \in StreamsUpTo(MaxDeltas) : stream' = t
            /\ stream_kind' = "Stream"
            /\ UNCHANGED response
    /\ pc' = "returned"
    /\ UNCHANGED <<db, next_id, op, source, count, result, message, error,
                   chunker_vars, session_vars, embed_vars, query_vars,
                   history_vars, peer_vars, sources, status, events, failure>>

\* the completion request raises: except Exception: return error_msg
GenerateCompleteFail ==
    /\ Generating
    /\ pc = "complete"
    /\ response' = error_msg
    /\ failure' = "completion call"
    /\ pc' = "returned"
    /\ UNCHANGED <<db, next_id, op, source, count, result, message, error,
                   chunker_vars, session_vars, embed_vars, query_vars,
                   history_vars, peer_vars, sources, status, stream,
                   stream_kind, events>>

\* chat: relevant_chunks = retriever.find_relevant_chunks(message, k=3);
\* return ChatResponse(message=response, sources=sources)
ChatSources ==
    /\ op = "chat"
    /\ pc = "returned"
    /\ sources' = find_relevant_chunks(db, embeddings_create(query), chat_k)
    /\ status' = 200
    /\ pc' = "done"
    /\ UNCHANGED <<db, next_id, op, source, count, result, message, error,
                   chunker_vars, session_vars, embed_vars, query_vars,
                   history_vars, peer_vars, response, stream, stream_kind,
                   events, failure>>

\* chat: the second retrieval raises: HTTPException(status_code=500)
ChatSourcesFail ==
    /\ op = "chat"
    /\ pc = "returned"
    /\ status' = 500
    /\ failure' = IF failure = None THEN "sources" ELSE failure
    /\ pc' = "done"
    /\ UNCHANGED <<db, next_id, op, source, count, result, message, error,
                   chunker_vars, session_vars, embed_vars, query_vars,
                   history_vars, peer_vars, response, sources, stream,
                   stream_kind, events>>

\* chat_stream: for chunk in stream  begins; a str is iterated by character
StreamStart ==
    /\ op = "chat_stream"
    /\ pc = "returned"
    /\ IF stream_kind = "Stream"
       THEN UNCHANGED <<stream, stream_kind>>
       ELSE /\ stream' = iter_str(response)
            /\ stream_kind' = "str"
    /\ pc' = "iterate"
    /\ UNCHANGED <<db, next_id, op, source, count, result, message, error,
                   chunker_vars, session_vars, embed_vars, query_vars,
                   history_vars, peer_vars, response, sources, status,
                   events, failure>>

\* chat_stream: one iteration of  for chunk in stream
StreamIterate ==
    /\ op = "chat_stream"
    /\ pc = "iterate"
    /\ stream # <<>>
    /\ events' = events \o events_of(Head(stream))
    /\ stream' = Tail(stream)
    /\ UNCHANGED <<db, next_id, op, pc, source, count, result, message,
                   error, chunker_vars, session_vars, embed_vars, query_vars,
                   history_vars, peer_vars, response, sources, status,
                   stream_kind, failure>>

\* chat_stream: reading the next chunk of the Stream raises: yield the error
\* event, yield the end marker
StreamReadFail ==
    /\ op = "chat_stream"
    /\ pc = "iterate"
    /\ stream_kind = "Stream"
    /\ events' = events \o <<sse(error_event), sse(DONE)>>
    /\ failure' = "stream read"
    /\ pc' = "done"
    /\ UNCHANGED <<db, next_id, op, source, count, result, message, error,
                   chunker_vars, session_vars, embed_vars, query_vars,
                   history_vars, peer_vars, response, sources, status,
                   stream, stream_kind>>

\* chat_stream: the iteration is over: yield the end marker
StreamEnd ==
    /\ op = "chat_stream"
    /\ pc = "iterate"
    /\ stream = <<>>
    /\ events' = Append(events, sse(DONE))
    /\ pc' = "done"
    /\ UNCHANGED <<db, next_id, op, source, count, result, message, error,
                   chunker_vars, session_vars, embed_vars, query_vars,
                   history_vars, peer_vars, response, sources, status,
                   stream, stream_kind, failure>>

NextApi ==
    \/ Next
    \/ GenerateEmbed
    \/ GenerateEmbedFail
    \/ GenerateSelect
    \/ GenerateSelectFail
    \/ GenerateComplete
    \/ GenerateCompleteFail
    \/ ChatSources
    \/ ChatSourcesFail
    \/ StreamStart
    \/ StreamIterate
    \/ StreamReadFail
    \/ StreamEnd

SpecApi == Init /\ [][NextApi]_vars

(***************************************************************************)
(* SpecChatRace: the chunk and embed commands and the non-streaming chat   *)
(* endpoint of one caller, while another caller deletes chunks.            *)
(***************************************************************************)
\* a request to the chat endpoint: generate_answer starts
ChatGenerateEmbed ==
    /\ GenerateEmbed
    /\ op' = "chat"

NextChatRace ==
    \/ ChunkCommand
    \/ RunChunker
    \/ StoreAdd
    \/ StoreCommit
    \/ EmbedSelect
    \/ EmbedBatch
    \/ EmbedCommit
    \/ Return
    \/ ChatGenerateEmbed
    \/ GenerateSelect
    \/ GenerateComplete
    \/ ChatSources
    \/ OtherDeleteChunks

SpecChatRace == Init /\ [][NextChatRace]_vars

(***************************************************************************)
(* SpecRechunk: rechunk run twice in sequence on one source with the same  *)
(* budget, as a function of the joined content the first run starts from   *)
(* (every text up to MaxLen characters).  The store between the runs is    *)
(* the rows store_chunks writes from the first run's candidates.           *)
(***************************************************************************)
InitRechunk ==
    /\ op = "rechunk_twice"
    /\ pc = "first"
    /\ source \in Titles
    /\ StoreUnused
    /\ text \in TextsUpTo(MaxLen)
    /\ max_tokens \in 1..MaxTok

\* first run: new_chunks = chunker.chunk_text(full_content)
RechunkFirst ==
    /\ op = "rechunk_twice"
    /\ pc = "first"
    /\ chunks' = chunk_text(text, max_tokens)
    /\ pc' = "second"
    /\ UNCHANGED <<peer_vars, chat_vars, db, next_id, op, source, count,
                   result, message, error, text, max_tokens, session_vars,
                   embed_vars, query_vars, history_vars>>

\* second run: the rows of the first run are selected, their contents
\* joined with blank lines and chunked again
RechunkSecond ==
    /\ op = "rechunk_twice"
    /\ pc = "second"
    /\ LET found == [j \in 1..Len(chunks) |-> ChunkRow(j, chunks[j], source)]
           full_content ==
               join(<<Newline, Newline>>,
                    [j \in 1..Len(found) |-> found[j].chunk_content])
       IN  /\ selected' = found
           /\ text' = full_content
           /\ chunks' = chunk_text(full_content, max_tokens)
    /\ pc' = "done"
    /\ UNCHANGED <<peer_vars, chat_vars, db, next_id, op, source, count,
                   result, message, error, max_tokens, i, session_new,
                   session_dirty, embed_vars, query_vars, history_vars>>

NextRechunk ==
    \/ RechunkFirst
    \/ RechunkSecond

SpecRechunk == InitRechunk /\ [][NextRechunk]_vars

(***************************************************************************)
(* Claims about chunk_text (checked under SpecChunk).                      *)
(***************************************************************************)
TokenCount(t) == Len(tokenize(t))

WordsOf(t) == split_ws(t, 1)

\* C1: every candidate chunk_text returns has a token count within
\* max_tokens, unless it is exactly one word whose own token count exceeds
\* max_tokens.
C1_CandidatesWithinBudget ==
    (op = "chunk_text" /\ pc = "returned") =>
        \A j \in 1..Len(chunks) :
            \/ TokenCount(chunks[j].text) <= max_tokens
            \/ /\ Len(WordsOf(chunks[j].text)) = 1
               /\ TokenCount(WordsOf(chunks[j].text)[1]) > max_tokens

\* C2: the words of the candidates, concatenated in output order, are the
\* word sequence of the input text.
C2_WordSequencePreserved ==
    (op = "chunk_text" /\ pc = "returned") =>
        Flatten([j \in 1..Len(chunks) |-> WordsOf(chunks[j].text)]) = WordsOf(text)

\* C2 witness: a text of two paragraphs, one of them packed word by word into
\* two non-empty candidates.
C2_Witness ==
    /\ op = "chunk_text"
    /\ pc = "returned"
    /\ Len(paragraphs_of(text)) = 2
    /\ \E j \in 1..(Len(chunks) - 1) :
           /\ chunks[j].meta.index = chunks[j + 1].meta.index
           /\ chunks[j].text # <<>>
           /\ chunks[j + 1].text # <<>>

(***************************************************************************)
(* Claims about the store commands (checked under Spec).                   *)
(***************************************************************************)
RowIds(rows) == {rows[j].id : j \in 1..Len(rows)}

RowById(rows, id) == rows[CHOOSE j \in 1..Len(rows) : rows[j].id = id]

EmbeddedRows == {j \in 1..Len(db) : db[j].is_embedded}

PendingRows == {j \in 1..Len(db) : ~db[j].is_embedded}

\* the ids the running store_chunks call has drawn so far
CallIds == (next_id - i)..(next_id - 1)

Storing == op \in {"chunk", "rechunk"} /\ pc \in {"store_add", "error", "done"}

\* C3: store_chunks is all-or-nothing: while the call runs and after it has
\* failed, no row of the call is in the store; after it has returned, the
\* store holds one row per candidate, in order.  The store never holds only
\* part of a call's candidates.
C3_StoreAllOrNothing ==
    Storing =>
        LET persisted == SelectSeq(db, LAMBDA c : c.id \in CallIds)
        IN  IF pc = "done"
            THEN /\ Len(persisted) = Len(chunks)
                 /\ \A j \in 1..Len(chunks) :
                        /\ persisted[j].chunk_content = chunks[j].text
                        /\ persisted[j].chunk_title = source
            ELSE persisted = <<>>

\* C3 witness: store_chunks raised at its second candidate, after the first
\* was added to the session.
C3_Witness ==
    /\ op = "chunk"
    /\ pc = "error"
    /\ error = "store_chunks"
    /\ Len(chunks) = 2
    /\ i = 1

Queried == op = "query" /\ pc = "done"

Distance(c) == l2_distance(c.embedding, query_embedding)

\* C4: find_relevant_chunks returns at most k chunks, each with
\* is_embedded = true.
C4_AtMostKAllEmbedded ==
    Queried =>
        /\ Len(relevant) <= k
        /\ \A j \in 1..Len(relevant) : relevant[j].is_embedded

\* C4 witness: a query that returned k >= 1 chunks from a store holding more
\* than k embedded chunks and a pending one.
C4_Witness ==
    /\ Queried
    /\ k >= 1
    /\ Len(relevant) = k
    /\ Cardinality(EmbeddedRows) > k
    /\ PendingRows # {}

\* C5: the result is the k nearest embedded chunks in ascending distance:
\* min(k, E) chunks, sorted by non-decreasing distance, and no embedded chunk
\* outside the result is strictly closer to the query than one inside it.
C5_NearestInAscendingOrder ==
    Queried =>
        /\ Len(relevant) = Min(k, Cardinality(EmbeddedRows))
        /\ \A j \in 1..(Len(relevant) - 1) :
               Distance(relevant[j]) <= Distance(relevant[j + 1])
        /\ \A j \in EmbeddedRows :
               db[j].id \notin RowIds(relevant) =>
                   \A r \in 1..Len(relevant) :
                       ~(Distance(db[j]) < Distance(relevant[r]))

\* C5 witness: a result of two chunks at different distances, with a third
\* embedded chunk left out, the nearest one not being first in the table.
C5_Witness ==
    /\ Queried
    /\ Len(relevant) = 2
    /\ Distance(relevant[1]) < Distance(relevant[2])
    /\ Cardinality(EmbeddedRows) = 3
    /\ db[1].id # relevant[1].id

\* C6: with E < k embedded chunks the result is exactly those E chunks; with
\* E = 0 it is the empty sequence, returned normally.
C6_FewerThanK ==
    Queried =>
        (Cardinality(EmbeddedRows) < k =>
            /\ Len(relevant) = Cardinality(EmbeddedRows)
            /\ RowIds(relevant) = {db[j].id : j \in EmbeddedRows}
            /\ error = None)

\* C6 witness: k = 2 against a store with one embedded chunk and one pending
\* chunk.
C6_Witness ==
    /\ Queried
    /\ k = 2
    /\ Cardinality(EmbeddedRows) = 1
    /\ PendingRows # {}
    /\ Len(relevant) = 1

EmbedFailed == op = "embed" /\ pc = "error"

\* C7: when batch i fails (embedding request or commit), no chunk of that
\* batch is embedded or carries an embedding, the error is raised, and every
\* chunk of the batches before it is embedded.
C7_FailedBatchRolledBack ==
    EmbedFailed =>
        /\ error # None
        /\ \A j \in 1..Len(selected) :
               LET row == RowById(db, selected[j].id)
               IN  /\ j <= i => (row.is_embedded /\ row.embedding # NoEmbedding)
                   /\ (j > i /\ j <= i + batch_size) =>
                          (~row.is_embedded /\ row.embedding = NoEmbedding)

\* C7 witness: the commit of a later batch failed after an earlier batch was
\* committed.
C7_Witness ==
    /\ EmbedFailed
    /\ i >= 1
    /\ error = "Error processing batch: commit"

C9_EmbeddingIffFlag ==
    \A j \in 1..Len(db) : (db[j].embedding # NoEmbedding) <=> db[j].is_embedded

\* C9 witness: after a failed batch the store holds embedded chunks of the
\* committed batch and pending chunks of the failed one.
C9_Witness ==
    /\ EmbedFailed
    /\ EmbeddedRows # {}
    /\ PendingRows # {}

\* C10: if rechunk fails after it has read the source's chunks, the store
\* still holds the original chunks of that source unchanged.
C10_RechunkFailureKeepsOriginal ==
    (op = "rechunk" /\ pc = "error" /\ selected # <<>>) =>
        select_by_title(db, source) = selected

(***************************************************************************)
(* Claims about rechunk and delete (checked under Spec).                   *)
(***************************************************************************)
WordsOfRows(rows) ==
    Flatten([j \in 1..Len(rows) |-> WordsOf(rows[j].chunk_content)])

RechunkDone == op = "rechunk" /\ pc = "done" /\ selected # <<>>

\* C11: after a successful rechunk of a source that had chunks, no chunk
\* with one of the old ids exists, the reported count is the number of chunks
\* stored under the title, and the words of the new contents, in order, are
\* the words of the old contents.
C11_RechunkReplaces ==
    RechunkDone =>
        /\ RowIds(db) \cap RowIds(selected) = {}
        /\ result = Len(select_by_title(db, source))
        /\ WordsOfRows(select_by_title(db, source)) = WordsOfRows(selected)

\* C11 witness: a rechunk that turned one chunk into two, next to a chunk of
\* another source.
C11_Witness ==
    /\ RechunkDone
    /\ Len(selected) = 1
    /\ result = 2
    /\ \E j \in 1..Len(db) : db[j].chunk_title # source

\* C12: a confirmed delete of title s removes every chunk with title s and
\* leaves every other chunk as it was.
C12_DeleteByTitle ==
    [][(DeleteExec /\ source \in Titles) =>
           db' = SelectSeq(db, LAMBDA c : c.chunk_title # source)]_vars

\* C12 witness: two chunks of one title were deleted and a chunk of the
\* other title is still stored.
C12_Witness ==
    /\ op = "delete"
    /\ pc = "done"
    /\ source \in Titles
    /\ result = 2
    /\ db # <<>>
    /\ \A j \in 1..Len(db) : db[j].chunk_title # source

\* C13: rechunk or delete of a title no chunk carries changes nothing in the
\* store and reports that nothing was found, without an error.
C13_UnknownTitleNoOp ==
    [][(/\ op = "idle"
        /\ op' \in {"rechunk", "delete"}
        /\ source' \in Titles
        /\ \A j \in 1..Len(db) : db[j].chunk_title # source') =>
           /\ db' = db
           /\ pc' = "done"
           /\ message' = "No chunks found"
           /\ error' = None]_vars

\* C13 witness: a rechunk of a title without chunks has returned while the
\* store holds chunks of the other title.
C13_Witness ==
    /\ op = "rechunk"
    /\ pc = "done"
    /\ message = "No chunks found"
    /\ db # <<>>

(***************************************************************************)
(* Claim about the budget of chunk_text (checked under SpecBudget).        *)
(***************************************************************************)
\* C14: a budget of zero or less is rejected: chunk_text called with
\* max_tokens <= 0 returns no candidate.
C14_NonPositiveBudgetRejected ==
    (op = "chunk_text" /\ pc = "returned" /\ max_tokens <= 0) =>
        chunks = <<>>

(***************************************************************************)
(* Claim about concurrent embedders (checked under SpecConc).              *)
(***************************************************************************)
\* C15: in every interleaving each chunk is written by the Embedder exactly
\* once: no process_pending_embeddings invocation commits its update of a
\* chunk that is already embedded.
C15_EmbeddedExactlyOnce ==
    [][/\ EmbedCommit =>
              \A id \in RowIds(session_dirty) : ~RowById(db, id).is_embedded
       /\ PeerEmbedCommit =>
              \A id \in RowIds(peer_dirty) : ~RowById(db, id).is_embedded]_vars

(***************************************************************************)
(* Claim about the count of process_pending_embeddings (checked under      *)
(* SpecShort).                                                             *)
(***************************************************************************)
\* the chunks of the snapshot that are embedded in the store
CommittedByRun ==
    Cardinality({j \in 1..Len(selected) : RowById(db, selected[j].id).is_embedded})

\* C17: the count process_pending_embeddings gives its caller is the number
\* of chunks the invocation committed as embedded, in every outcome; an
\* invocation that gives no count has committed nothing.
C17_CountIsCommitted ==
    (op = "embed" /\ pc \in {"done", "error"}) =>
        IF pc = "done" THEN result = CommittedByRun ELSE CommittedByRun = 0

(***************************************************************************)
(* Claims about retrieval by a chunk's own content and by an empty query   *)
(* (checked under Spec).                                                   *)
(***************************************************************************)
\* the embedded chunks whose content is the query text
OwnContentRows == {j \in EmbeddedRows : db[j].chunk_content = query}

\* C18 as stated: a query that is the content of an embedded chunk, with any
\* k >= 1, returns that chunk, whatever else the store holds.
C18_OwnContentReturned ==
    (Queried /\ k >= 1) =>
        \A j \in OwnContentRows : db[j].id \in RowIds(relevant)

\* C18: a query that is the content of an embedded chunk, with any k >= 1,
\* returns that chunk unless the result is filled with k chunks that are all
\* at distance 0 from the query.
C18_OwnContentReturnedUnlessTied ==
    (Queried /\ k >= 1) =>
        \A j \in OwnContentRows :
            \/ db[j].id \in RowIds(relevant)
            \/ /\ Len(relevant) = k
               /\ \A r \in 1..Len(relevant) : Distance(relevant[r]) = 0

\* C18 witness: k = 1, the chunk whose content is the query is returned, and
\* an embedded chunk farther from the query stands before it in the table.
C18_Witness ==
    /\ Queried
    /\ k = 1
    /\ \E j \in OwnContentRows :
           /\ relevant = <<db[j]>>
           /\ j > 1
           /\ db[1].is_embedded
           /\ Distance(db[1]) > 0

\* C19: retrieval with an empty query is a no-op: no embedding request is
\* made, nothing is read, and an empty result is reported with a message
\* instead of an error.
C19_EmptyQueryNoOp ==
    (op = "query" /\ query = <<>>) =>
        /\ pc = "done"
        /\ error = None
        /\ query_embedding = NoEmbedding
        /\ relevant = <<>>
        /\ message # None

(***************************************************************************)
(* Claims about the chat endpoints (checked under SpecApi).                *)
(***************************************************************************)
\* C16: chat_stream: every failure of retrieve-and-generate (retrieval,
\* generation, reading the stream) reaches the client as an error event
\* followed by the end marker.
C16_StreamFailureInBand ==
    (op = "chat_stream" /\ pc = "done" /\ failure # None) =>
        /\ Len(events) >= 2
        /\ events[Len(events) - 1] = sse(error_event)
        /\ events[Len(events)] = sse(DONE)

\* the completion request of generate_answer returned an answer
AnswerGenerated == relevant # <<>> /\ failure \in {None, "sources"}

\* C20: chat: every internal failure of retrieve-and-generate (embedding
\* call, store read, completion call) ends in a server-error response, and a
\* success response is sent only when an answer was generated.
C20_ChatFailureIsServerError ==
    (op = "chat" /\ pc = "done") =>
        /\ failure # None => status = 500
        /\ status = 200 => AnswerGenerated

(***************************************************************************)
(* Claim about the content of the candidates (checked under SpecChunk).    *)
(***************************************************************************)
\* C23: every candidate chunk_text returns has non-empty content, for every
\* text and every max_tokens >= 1.
C23_CandidatesNonEmpty ==
    (op = "chunk_text" /\ pc = "returned") =>
        \A j \in 1..Len(chunks) : chunks[j].text # <<>>

(***************************************************************************)
(* Claim about rechunk run twice (checked under SpecRechunk).              *)
(***************************************************************************)
\* C25: rechunk is idempotent: the second of two runs with the same
\* max_tokens produces as many chunks as the first run left, with the same
\* contents in the same order.
C25_RechunkIdempotent ==
    (op = "rechunk_twice" /\ pc = "done") =>
        [j \in 1..Len(chunks) |-> chunks[j].text]
            = [j \in 1..Len(selected) |-> selected[j].chunk_content]

(***************************************************************************)
(* Claims about what store_chunks and rechunk leave in the store (checked  *)
(* under Spec).                                                            *)
(***************************************************************************)
\* C26: a successful store_chunks call with n candidates and title s appends
\* exactly n new chunks, each with title s, not embedded and without an
\* embedding, returns n, and leaves every chunk that existed before
\* unchanged and present.
C26_StoreChunksFrame ==
    [][StoreCommit =>
           /\ Len(db') = Len(db) + Len(chunks)
           /\ SubSeq(db', 1, Len(db)) = db
           /\ \A j \in 1..Len(chunks) :
                  LET c == db'[Len(db) + j]
                  IN  /\ c.chunk_title = source
                      /\ c.chunk_content = chunks[j].text
                      /\ ~c.is_embedded
                      /\ c.embedding = NoEmbedding
                      /\ c.id \notin RowIds(db)
           /\ Cardinality(RowIds(db')) = Len(db')
           /\ result' = Len(chunks)]_vars

\* C26 witness: store_chunks returned 2 after adding two chunks to a store
\* that held an embedded chunk of the same title.
C26_Witness ==
    /\ op = "chunk"
    /\ pc = "done"
    /\ result = 2
    /\ Len(db) = 3
    /\ db[1].chunk_title = source
    /\ db[1].is_embedded

\* C30: after a successful rechunk every chunk of the source is pending and
\* has no embedding, and find_relevant_chunks returns only chunks that are
\* embedded in the store, so none of the source before a later
\* process_pending_embeddings.
C30_RechunkLeavesPending ==
    /\ RechunkDone =>
           \A j \in 1..Len(db) :
               db[j].chunk_title = source =>
                   (~db[j].is_embedded /\ db[j].embedding = NoEmbedding)
    /\ Queried =>
           \A r \in 1..Len(relevant) : RowById(db, relevant[r].id).is_embedded

\* C30 witness: a rechunk of a source whose chunks were all embedded has
\* returned, next to an embedded chunk of the other source.
C30_Witness ==
    /\ RechunkDone
    /\ result >= 1
    /\ \A j \in 1..Len(selected) : selected[j].is_embedded
    /\ \E j \in 1..Len(db) : db[j].chunk_title # source /\ db[j].is_embedded

(***************************************************************************)
(* Claim about what a returned embedding run leaves pending (checked under *)
(* SpecShort).                                                             *)
(***************************************************************************)
\* C27: when process_pending_embeddings has returned without error, every
\* chunk of its snapshot that is still in the store is embedded.
C27_SnapshotEmbeddedOnReturn ==
    (op = "embed" /\ pc = "done") =>
        \A j \in 1..Len(selected) :
            selected[j].id \in RowIds(db) =>
                RowById(db, selected[j].id).is_embedded

(***************************************************************************)
(* Claim about the batches of an embedding run while chunks are inserted   *)
(* (checked under SpecSnapshot).                                           *)
(***************************************************************************)
\* the invocation has sent every batch before position peer_i of its
\* snapshot: the batch it sends or commits now starts at a multiple of
\* batch_size inside the snapshot
PeerBatchAligned ==
    /\ peer_batch_size >= 1
    /\ peer_i % peer_batch_size = 0
    /\ peer_i < Len(peer_selected)

\* the rows the invocation has sent in its current request, in order: the
\* snapshot rows peer_i + 1 .. min(peer_i + batch_size, len(snapshot))
PeerBatchIsNextSlice ==
    LET last == Min(peer_i + peer_batch_size, Len(peer_selected))
    IN  /\ Len(peer_dirty) = last - peer_i
        /\ Len(peer_dirty) <= peer_batch_size
        /\ \A j \in 1..Len(peer_dirty) :
               /\ peer_dirty[j].id = peer_selected[peer_i + j].id
               /\ peer_dirty[j].chunk_content
                      = peer_selected[peer_i + j].chunk_content

\* C22: for batch_size >= 1 the invocation walks its snapshot in consecutive
\* batches of at most batch_size, in snapshot order, one request per batch:
\* each request carries exactly the next slice of the snapshot, the position
\* advances by batch_size per committed batch and the run ends only past the
\* end of the snapshot, so every snapshot chunk is sent in exactly one batch;
\* the snapshot is fixed while the run lasts, and a commit changes no row
\* outside the batch, so a chunk inserted after the snapshot is neither sent
\* nor embedded by this invocation.
C22_SnapshotInConsecutiveBatches ==
    [][/\ (peer_pc' \in {"batch", "commit"}) => PeerBatchAligned'
       /\ (peer_pc' = "commit") => PeerBatchIsNextSlice'
       /\ (peer_pc' = "done") => peer_i' >= Len(peer_selected')
       /\ (peer_pc \in {"batch", "commit"}) =>
              /\ peer_selected' = peer_selected
              /\ peer_batch_size' = peer_batch_size
       /\ PeerEmbedBatch => peer_i' = peer_i
       /\ PeerEmbedCommit =>
              /\ peer_i' = peer_i + peer_batch_size
              /\ Len(db') = Len(db)
              /\ \A j \in 1..Len(db) :
                     db'[j] # db[j] =>
                         \E n \in (peer_i + 1)..Min(peer_i + peer_batch_size,
                                                   Len(peer_selected)) :
                             peer_selected[n].id = db[j].id]_vars

\* C22 witness: the invocation has sent the second batch of a snapshot of two
\* chunks while the store holds a pending chunk inserted after the snapshot.
C22_Witness ==
    /\ peer_pc = "commit"
    /\ peer_batch_size = 1
    /\ peer_i = 1
    /\ Len(peer_selected) = 2
    /\ \E j \in PendingRows : db[j].id \notin RowIds(peer_selected)

(***************************************************************************)
(* Claim about embedded chunks under concurrent embedding runs with        *)
(* different models (checked under SpecConc).                              *)
(***************************************************************************)
\* C24: a chunk that is embedded keeps every field, its embedding included,
\* for as long as it is in the store, in every step of every caller.
C24_EmbeddedChunkImmutable ==
    [][\A j \in 1..Len(db) :
           db[j].is_embedded =>
               \A n \in 1..Len(db') :
                   db'[n].id = db[j].id => db'[n] = db[j]]_vars

(***************************************************************************)
(* Claims about delete and rechunk while other callers write (checked      *)
(* under SpecRace).                                                        *)
(***************************************************************************)
\* C21: the count delete reports is the number of rows its delete statement
\* removed from the store.
C21_ReportedCountIsRemoved ==
    [][DeleteExec => result' = Len(db) - Len(db')]_vars

\* the elements of a sequence
ElementsOf(seq) == {seq[j] : j \in 1..Len(seq)}

\* the words of the contents of the chunks rechunk is about to re-insert
ReinsertedWords(full_content) ==
    Flatten([j \in 1..Len(chunk_text(full_content, max_tokens)) |->
                 WordsOf(chunk_text(full_content, max_tokens)[j].text)])

\* C29: every chunk content committed under the title before rechunk's
\* delete is still stored after it or is contained in the chunks rechunk
\* re-inserts: each of its words is in a stored row or in a re-inserted chunk.
C29_RechunkLosesNoContent ==
    [][RechunkDelete =>
           \A j \in 1..Len(db) :
               db[j].chunk_title = source =>
                   \A w \in ElementsOf(WordsOf(db[j].chunk_content)) :
                       \/ w \in ElementsOf(WordsOfRows(db'))
                       \/ w \in ElementsOf(ReinsertedWords(text'))]_vars

(***************************************************************************)
(* Claim about the sources of a chat response while other callers write    *)
(* (checked under SpecChatRace).                                           *)
(***************************************************************************)
\* C28: the sources of a chat response are exactly the chunks generate_answer
\* retrieved as the context of the answer.
C28_SourcesAreContext ==
    (op = "chat" /\ pc = "done" /\ status = 200 /\ failure = None) =>
        sources = relevant

====
